---- MODULE Spec2Model ----
(***************************************************************************)
(* Model of the BizTracker ledger: the in-memory store (MemStorage), the   *)
(* Express handlers that drive it (server/routes.ts) and the two client    *)
(* components that compute request bodies (record-sale.tsx and             *)
(* quick-stock-adjuster.tsx).                                              *)
(*                                                                         *)
(* Numbers.  Stock and quantities are decimal strings in the program; the  *)
(* model holds the value parseFloat yields, counted in tenths of a kg      *)
(* (the grid of the client's toFixed(1)).  Prices are counted in cents per *)
(* kg, amounts in cents, so quantity * price is counted in tenths of a     *)
(* cent and toFixed(2) rounds it to cents.  Binary floating point error    *)
(* and non-numeric strings are outside the model.                          *)
(*                                                                         *)
(* Time.  new Date() yields the variable now, an instant counted in ticks  *)
(* of three hours; toISOString gives its calendar day in UTC, getHours its *)
(* hour in the server's time zone, which lies off ticks ahead of UTC.      *)
(*                                                                         *)
(* Concurrency.  Node runs a handler without interruption up to an await;  *)
(* every await of a handler and of the storage methods it calls is a point *)
(* at which the steps of other requests may run.  Every action below is    *)
(* the code between two awaits.  Objects are shared by reference: the      *)
(* product a handler got from getProduct is the object held in the map, so *)
(* a later read of product.stock yields the current stock.  Requests in    *)
(* flight are a bag of records, one per request, holding the position of   *)
(* its handler and the locals the rest of the handler still reads.         *)
(***************************************************************************)
EXTENDS Integers, Sequences, FiniteSets, Bags, TLC

\* ---------------------------------------------------------------- bounds
MaxSales == 2
MaxReq == 2
MaxStock == 2
\* the number of clock ticks a run of the report scenario may take
MaxTicks == 2

\* an id no product ever gets (randomUUID never returns it)
NoId == 0
\* the ids requests name: the id the first created product gets, and NoId
ProductIdInputs == {0, 1}
StockInputs == -1..MaxStock
QtyInputs == {-1, 1, 2}
PriceInputs == {5, 15}
PurchasePriceInputs == {5}
AmountInputs == {1, 2}
\* the price the sale form is left with in the full specification
FormPrices == {15}
AdjustAmounts == {1, 2}
AdjustTypes == {"add", "remove"}
\* the product a listing form sends
ListedNames == {"olma"}
\* the bodies POST /api/products is sent in the creation scenario
NameInputs == {"", "olma"}
CreatePriceInputs == {0, 5}

\* ----------------------------------------------------------------- time
\* Instants are counted in ticks of three hours since a midnight in UTC.
HoursPerTick == 3
TicksPerDay == 8
\* the instant the server starts at (15:00 UTC)
ServerStart == 5
\* the time zones of the report scenario: UTC-6, UTC, UTC+6
Offsets == {-2, 0, 2}
\* routes.ts:120  currentHour < 18
SubmitHour == 18
\* the local time the report scenario starts at: 18:00 of the first day
ReportStart == SubmitHour \div HoursPerTick

VARIABLES
    products,    \* MemStorage.products, by product id
    sales,       \* MemStorage.sales, in insertion order
    req,         \* the requests the server has taken up and not yet seen off
    cache,       \* the stock of each product as the client last fetched it
    startStock,  \* history: the stock the product of a scenario starts with
    now,         \* the instant new Date() yields, in ticks since a UTC midnight
    off,         \* the server's time zone: local time minus UTC, in ticks
    dailyReports \* MemStorage.dailyReports, by date

vars == <<products, sales, req, cache, startStock, now, off, dailyReports>>

\* ------------------------------------------------------- pure functions
Max(a, b) == IF a >= b THEN a ELSE b

Abs(x) == IF x < 0 THEN -x ELSE x

\* Number.prototype.toFixed(2) of an amount counted in tenths of a cent:
\* the nearest cent, a half rounded away from zero.
ToFixed2(x) == IF x >= 0 THEN (x + 5) \div 10 ELSE -((-x + 5) \div 10)

\* the spec's round2 (round half away from zero to 2 decimals)
round2(x) == IF x >= 0 THEN (Abs(x) + 5) \div 10 ELSE 0 - ((Abs(x) + 5) \div 10)

RECURSIVE SumQty(_, _, _)
\* sum of the quantities of the first n sale records that reference product id
SumQty(ss, id, n) ==
    IF n = 0 THEN 0
    ELSE SumQty(ss, id, n - 1) + (IF ss[n].productId = id THEN ss[n].quantity ELSE 0)

\* Number.prototype.toFixed(1) of the quotient a / b, b # 0, counted in
\* tenths: the nearest tenth, a half rounded away from zero
ToFixed1(a, b) ==
    LET q == (2 * Abs(a) * 10 + Abs(b)) \div (2 * Abs(b))
    IN IF (a < 0) = (b < 0) THEN q ELSE -q

ISODate_Instant(t) == t

\* Date.prototype.toISOString().split('T')[0]: the calendar day in UTC
ISODate(t) == t \div TicksPerDay

getHours_UTC(t) == (t % TicksPerDay) * HoursPerTick

\* Date.prototype.getHours(): the hour of the day in the server's time zone
getHours(t) == ((t + off) % TicksPerDay) * HoursPerTick

\* -------------------------------------------------------------- storage
\* MemStorage.createProduct stores the body as sent, and createdAt:
\* new Date() (the id is the position in products)
createProductRecord(body) ==
    [name |-> body.name, purchasePrice |-> body.purchasePrice,
     sellingPrice |-> body.sellingPrice, stock |-> body.stock,
     createdAt |-> now]

\* the product a scenario starts with, created at instant 0
ListedProduct(purchasePrice, stock) ==
    [name |-> "olma", purchasePrice |-> purchasePrice, sellingPrice |-> 15,
     stock |-> stock, createdAt |-> 0]

\* MemStorage.getProduct: the product object of the map, or undefined (NoId)
getProduct(id) == IF id \in DOMAIN products THEN id ELSE NoId

updateProductStock_Dropped(ps, id, newStock) == ps

updateProductStock_All(ps, id, newStock) ==
    [i \in DOMAIN ps |-> [ps[i] EXCEPT !.stock = newStock]]

\* MemStorage.updateProductStock: writes the stock of an existing product,
\* does nothing (and reports nothing) for an unknown id
updateProductStock(ps, id, newStock) ==
    IF id \in DOMAIN ps THEN [ps EXCEPT ![id].stock = newStock] ELSE ps

createSaleNewStock_Added(stock, quantity) == stock + quantity

createSaleNewStock_Kept(stock, quantity) == stock

\* index.js:574  parseFloat(product.stock) - parseFloat(insertSale.quantity)
createSaleNewStock(stock, quantity) == stock - quantity

\* the record MemStorage.createSale stores: the request body as sent, and
\* saleDate: new Date()
createSaleRecord(body) ==
    [productId |-> body.product, quantity |-> body.quantity,
     pricePerKg |-> body.pricePerKg, totalAmount |-> body.totalAmount,
     profit |-> body.profit, saleDate |-> now]

InsufficientStock_OffByOne(stock, quantity) == stock + 1 < quantity

InsufficientStock_Strict(stock, quantity) == stock <= quantity

\* routes.ts:52  parseFloat(product.stock) < parseFloat(saleData.quantity)
InsufficientStock(stock, quantity) == stock < quantity

getSalesByDate_All(date) == DOMAIN sales

\* MemStorage.getSalesByDate: the sales (by position) whose saleDate has the
\* ISO date asked for
getSalesByDate(date) == {i \in DOMAIN sales : ISODate(sales[i].saleDate) = date}

RECURSIVE SumField(_, _)
\* todaySales.reduce((sum, sale) => sum + parseFloat(sale[field]), 0)
SumField(S, field) ==
    IF S = {} THEN 0
    ELSE LET i == CHOOSE z \in S : TRUE
         IN sales[i][field] + SumField(S \ {i}, field)

\* MemStorage.getSalesByDateRange: the sales whose ISO date lies between
\* startDate and endDate, both included
getSalesByDateRange(startDate, endDate) ==
    {i \in DOMAIN sales : /\ ISODate(sales[i].saleDate) >= startDate
                           /\ ISODate(sales[i].saleDate) <= endDate}

\* index.js:617-619  weekAgo.setDate(weekAgo.getDate() - 7), as ISO date
WeekDays == 7
weeklyStartDate(t) == ISODate(t - WeekDays * TicksPerDay)

\* index.js:611-614: the daily figures of the sales in todaySales, amounts
\* in cents, the margin in tenths of a per cent
DailyStats(todaySales) ==
    LET dailyProfit == SumField(todaySales, "profit")
        dailySales == SumField(todaySales, "totalAmount")
        dailyCost == dailySales - dailyProfit
    IN [dailyProfit |-> ToFixed2(10 * dailyProfit),
        dailySales |-> ToFixed2(10 * dailySales),
        dailyCost |-> ToFixed2(10 * dailyCost),
        dailyMargin |-> IF dailySales > 0
                        THEN ToFixed1(dailyProfit * 100, dailySales) ELSE 0]

\* index.js:638  for (let i = 6; i >= 0; i--)
WeeklySpan_Seven == WeekDays

WeeklySpan == 6

\* the days of the week toLocaleDateString names
DaysPerWeek == 7

\* index.js:639-641: the ISO date of the day i days before instant today
WeeklyDateStr(today, i) == ISODate(today - i * TicksPerDay)

\* index.js:644-651: the entry of the day i days before instant today; day
\* is the weekday of that day in the server's time zone, as a number
WeeklyEntry(today, i, daySales) ==
    [day |-> ((today - i * TicksPerDay + off) \div TicksPerDay) % DaysPerWeek,
     profit |-> ToFixed2(10 * SumField(daySales, "profit")),
     sales |-> ToFixed2(10 * SumField(daySales, "totalAmount"))]

RECURSIVE NewestFirst(_, _)
\* Array.prototype.sort((a, b) => b.at - a.at) of the entries S of a map:
\* the latest first, entries of one instant in insertion order
NewestFirst(S, at) ==
    IF S = {} THEN <<>>
    ELSE LET i == CHOOSE j \in S :
                     \A k \in S : at[j] > at[k] \/ (at[j] = at[k] /\ j <= k)
         IN <<i>> \o NewestFirst(S \ {i}, at)

\* MemStorage.getProducts: the product objects of the map, by id
getProducts == NewestFirst(DOMAIN products, [id \in DOMAIN products |-> products[id].createdAt])

\* MemStorage.getSales: the sale objects of the map, by position
getSales == NewestFirst(DOMAIN sales, [i \in DOMAIN sales |-> sales[i].saleDate])

\* submittedAt: null
NoTime == -1

\* MemStorage.getDailyReport
getDailyReport(date) == date \in DOMAIN dailyReports

\* Map.prototype.set on dailyReports
SetReport(rs, date, report) ==
    [d \in DOMAIN rs \cup {date} |-> IF d = date THEN report ELSE rs[d]]

createDailyReport_NoStamp(rs, insertReport) ==
    SetReport(rs, insertReport.date,
        [date |-> insertReport.date, totalSales |-> insertReport.totalSales,
         totalProfit |-> insertReport.totalProfit,
         totalCost |-> insertReport.totalCost,
         isSubmitted |-> insertReport.isSubmitted, submittedAt |-> NoTime])

\* MemStorage.createDailyReport: a new report object takes the place of
\* whatever the map held for the date
createDailyReport(rs, insertReport) ==
    SetReport(rs, insertReport.date,
        [date |-> insertReport.date, totalSales |-> insertReport.totalSales,
         totalProfit |-> insertReport.totalProfit,
         totalCost |-> insertReport.totalCost,
         isSubmitted |-> insertReport.isSubmitted,
         submittedAt |-> IF insertReport.isSubmitted THEN now ELSE NoTime])

updateDailyReport_KeepTotals(rs, date, updates) ==
    IF date \in DOMAIN rs
    THEN SetReport(rs, date, [rs[date] EXCEPT !.isSubmitted = updates.isSubmitted])
    ELSE rs

\* MemStorage.updateDailyReport: assigns the updates to the stored report,
\* and submittedAt when the report was not submitted before; nothing for a
\* date without report
updateDailyReport(rs, date, updates) ==
    IF date \in DOMAIN rs
    THEN SetReport(rs, date,
            [rs[date] EXCEPT !.totalSales = updates.totalSales,
                             !.totalProfit = updates.totalProfit,
                             !.totalCost = updates.totalCost,
                             !.isSubmitted = updates.isSubmitted,
                             !.submittedAt = IF updates.isSubmitted /\ ~rs[date].isSubmitted
                                             THEN now ELSE @])
    ELSE rs

\* the profit is summed over the sales there are when the totals are built
ReportTotals_Reread(todaySales) ==
    LET totalSales == SumField(todaySales, "totalAmount")
        totalProfit == SumField(DOMAIN sales, "profit")
    IN [totalSales |-> ToFixed2(10 * totalSales),
        totalProfit |-> ToFixed2(10 * totalProfit),
        totalCost |-> ToFixed2(10 * (totalSales - totalProfit)),
        isSubmitted |-> TRUE]

\* routes.ts:126-128 and the toFixed(2) of 133-136 and 143-146: the totals
\* of the sales in todaySales, in cents
ReportTotals(todaySales) ==
    LET totalSales == SumField(todaySales, "totalAmount")
        totalProfit == SumField(todaySales, "profit")
        totalCost == totalSales - totalProfit
    IN [totalSales |-> ToFixed2(10 * totalSales),
        totalProfit |-> ToFixed2(10 * totalProfit),
        totalCost |-> ToFixed2(10 * totalCost), isSubmitted |-> TRUE]

\* routes.ts:92  !newStock || isNaN(parseFloat(newStock))
\* (a body whose newStock is missing; every present value is a numeral)
InvalidNewStock(hasNewStock, newStock) == ~hasNewStock

\* ----------------------------------------------------------- requests
\* the body of a response that is not that of GET /api/dashboard/stats
NoStats ==
    [dailyProfit |-> 0, dailySales |-> 0, dailyCost |-> 0, dailyMargin |-> 0,
     weeklyProfit |-> 0, productCount |-> 0]

NoReq ==
    [pc |-> "none", product |-> NoId, quantity |-> 0, pricePerKg |-> 0,
     totalAmount |-> 0, profit |-> 0, adjustment |-> 0, type |-> "none", sale |-> 0,
     status |-> "none", date |-> 0, todaySales |-> {}, existing |-> FALSE,
     stats |-> NoStats, today |-> 0, weeklyData |-> <<>>, list |-> <<>>]

Done(status) == [NoReq EXCEPT !.pc = "done", !.status = status]

InFlight == BagToSet(req)

\* a request arrives
Arrive(y) ==
    /\ BagCardinality(req) < MaxReq
    /\ req' = req (+) SetToBag({y})

\* the handler of request x runs up to its next await or to its response
Step(x, y) ==
    /\ BagIn(x, req)
    /\ req' = (req (-) SetToBag({x})) (+) SetToBag({y})

\* new MemStorage() leaves dailyReports empty
NoReports == <<>>

Init ==
    /\ products = <<>>
    /\ sales = <<>>
    /\ req = EmptyBag
    /\ cache = <<>>
    /\ startStock = <<>>
    /\ now = ServerStart
    /\ off = 0
    /\ dailyReports = NoReports

\* ------------------------------------------------ POST /api/products
\* routes.ts:18-30 with MemStorage.createProduct: the product is in the map
\* before the handler's await
ProductBegin(name, purchasePrice, sellingPrice, stock) ==
    /\ Len(products) + 1 \in ProductIdInputs
    /\ products' = Append(products, createProductRecord(
          [name |-> name, purchasePrice |-> purchasePrice,
           sellingPrice |-> sellingPrice, stock |-> stock]))
    /\ Arrive([NoReq EXCEPT !.pc = "product_createProduct"])
    /\ UNCHANGED <<sales, cache, startStock, now, off, dailyReports>>

\* routes.ts:22  res.json(product)
ProductRespond ==
    /\ Step([NoReq EXCEPT !.pc = "product_createProduct"], Done("200 product"))
    /\ UNCHANGED <<products, sales, cache, startStock, now, off, dailyReports>>

\* ---------------------------------------------------- POST /api/sales
\* routes.ts:44-47: parse the body and call getProduct; the handler awaits.
\* When getProduct found nothing the handler reads the body no more.
SaleBegin(productId, quantity, pricePerKg, totalAmount, profit) ==
    /\ Arrive(IF getProduct(productId) = NoId
              THEN [NoReq EXCEPT !.pc = "sale_getProduct"]
              ELSE [NoReq EXCEPT !.pc = "sale_getProduct",
                                 !.product = getProduct(productId),
                                 !.quantity = quantity, !.pricePerKg = pricePerKg,
                                 !.totalAmount = totalAmount, !.profit = profit])
    /\ UNCHANGED <<products, sales, cache, startStock, now, off, dailyReports>>

\* routes.ts:52  product.stock, read when the check runs from the object
\* getProduct returned, which is the object the map holds
CheckedStock_Stale(x) ==
    IF x.product \in DOMAIN startStock THEN startStock[x.product]
    ELSE products[x.product].stock

CheckedStock(x) == products[x.product].stock

\* the handler calls createSale without looking at what getProduct returned
SaleNotFound_Unchecked(x) ==
    /\ x.pc = "sale_getProduct"
    /\ x.product = NoId
    /\ Len(sales) < MaxSales
    /\ sales' = Append(sales, createSaleRecord(x))
    /\ Step(x, [NoReq EXCEPT !.pc = "sale_updateProductStock",
                             !.sale = Len(sales) + 1])
    /\ UNCHANGED <<products, cache, startStock, now, off, dailyReports>>

\* routes.ts:48-50
SaleNotFound(x) ==
    /\ x.pc = "sale_getProduct"
    /\ x.product = NoId
    /\ Step(x, Done("404 Product not found"))
    /\ UNCHANGED <<products, sales, cache, startStock, now, off, dailyReports>>

\* routes.ts:52-54
SaleInsufficient(x) ==
    /\ x.pc = "sale_getProduct"
    /\ x.product # NoId
    /\ InsufficientStock(CheckedStock(x), x.quantity)
    /\ Step(x, [Done("400 Insufficient stock") EXCEPT !.quantity = x.quantity])
    /\ UNCHANGED <<products, sales, cache, startStock, now, off, dailyReports>>

\* createSale puts the sale in place of the sales there are
SaleCreate_Replace(x) ==
    /\ x.pc = "sale_getProduct"
    /\ x.product # NoId
    /\ ~InsufficientStock(CheckedStock(x), x.quantity)
    /\ sales' = <<createSaleRecord(x)>>
    /\ products' = updateProductStock(products, x.product,
          createSaleNewStock(products[x.product].stock, x.quantity))
    /\ Step(x, [NoReq EXCEPT !.pc = "sale_updateProductStock", !.sale = 1])
    /\ UNCHANGED <<cache, startStock, now, off, dailyReports>>

\* routes.ts:56 and MemStorage.createSale up to its await: the sale is put
\* in the map and the stock of the product is rewritten, in one run
SaleCreate(x) ==
    /\ x.pc = "sale_getProduct"
    /\ x.product # NoId
    /\ ~InsufficientStock(CheckedStock(x), x.quantity)
    /\ Len(sales) < MaxSales
    /\ LET id == x.product
           newStock == createSaleNewStock(products[id].stock, x.quantity)
       IN /\ newStock <= MaxStock
          /\ sales' = Append(sales, createSaleRecord(x))
          /\ products' = updateProductStock(products, id, newStock)
    /\ Step(x, [NoReq EXCEPT !.pc = "sale_updateProductStock",
                             !.sale = Len(sales) + 1])
    /\ UNCHANGED <<cache, startStock, now, off, dailyReports>>

\* MemStorage.createSale after its await: return sale
SaleCreateReturn(x) ==
    /\ x.pc = "sale_updateProductStock"
    /\ Step(x, [x EXCEPT !.pc = "sale_createSale"])
    /\ UNCHANGED <<products, sales, cache, startStock, now, off, dailyReports>>

\* routes.ts:57  res.json(sale)
SaleRespond(x) ==
    /\ x.pc = "sale_createSale"
    /\ Step(x, [Done("200 sale") EXCEPT !.sale = x.sale])
    /\ UNCHANGED <<products, sales, cache, startStock, now, off, dailyReports>>

\* ------------------------------------- PATCH /api/products/:id/stock
\* routes.ts:89-96 with MemStorage.updateProductStock, which runs before
\* the handler's await; adjustment and type are the fields of the body the
\* handler does not read
PatchBegin(id, hasNewStock, newStock, adjustment, type) ==
    /\ IF InvalidNewStock(hasNewStock, newStock)
       THEN /\ Arrive(Done("400 Valid stock amount is required"))
            /\ UNCHANGED products
       ELSE /\ products' = updateProductStock(products, id, newStock)
            /\ Arrive([NoReq EXCEPT !.pc = "patch_updateProductStock",
                                    !.product = getProduct(id),
                                    !.adjustment = adjustment, !.type = type])
    /\ UNCHANGED <<sales, cache, startStock, now, off, dailyReports>>

\* routes.ts:97
PatchRespond(x) ==
    /\ x.pc = "patch_updateProductStock"
    /\ Step(x, [Done("200 Stock updated successfully") EXCEPT !.type = x.type])
    /\ UNCHANGED <<products, sales, cache, startStock, now, off, dailyReports>>

\* ------------------------------------- POST /api/reports/daily/submit
\* routes.ts:116-125: the date and the hour are read, the hour is checked
\* and getSalesByDate is called; the handler awaits
SubmitBegin ==
    /\ LET today == ISODate(now)
           currentHour == getHours(now)
       IN IF currentHour < SubmitHour
          THEN Arrive(Done("400 Daily report can only be submitted after 6:00 PM"))
          ELSE Arrive([NoReq EXCEPT !.pc = "submit_getSalesByDate",
                                    !.date = today,
                                    !.todaySales = getSalesByDate(today)])
    /\ UNCHANGED <<products, sales, cache, startStock, now, off, dailyReports>>

\* routes.ts:126-131: the totals are summed and getDailyReport is called
SubmitLookup(x) ==
    /\ x.pc = "submit_getSalesByDate"
    /\ Step(x, [x EXCEPT !.pc = "submit_getDailyReport",
                         !.existing = getDailyReport(x.date)])
    /\ UNCHANGED <<products, sales, cache, startStock, now, off, dailyReports>>

\* the handler sends isSubmitted: false with the refreshed totals
SubmitUpdate_Reopen(x) ==
    /\ x.pc = "submit_getDailyReport"
    /\ x.existing
    /\ dailyReports' = updateDailyReport(dailyReports, x.date,
          [ReportTotals(x.todaySales) EXCEPT !.isSubmitted = FALSE])
    /\ Step(x, [NoReq EXCEPT !.pc = "submit_updateDailyReport", !.date = x.date])
    /\ UNCHANGED <<products, sales, cache, startStock, now, off>>

\* routes.ts:132-138 with MemStorage.updateDailyReport
SubmitUpdate(x) ==
    /\ x.pc = "submit_getDailyReport"
    /\ x.existing
    /\ dailyReports' = updateDailyReport(dailyReports, x.date, ReportTotals(x.todaySales))
    /\ Step(x, [NoReq EXCEPT !.pc = "submit_updateDailyReport", !.date = x.date])
    /\ UNCHANGED <<products, sales, cache, startStock, now, off>>

\* routes.ts:140-148 with MemStorage.createDailyReport
SubmitCreate(x) ==
    /\ x.pc = "submit_getDailyReport"
    /\ ~x.existing
    /\ dailyReports' = createDailyReport(dailyReports,
          ReportTotals(x.todaySales) @@ [date |-> x.date])
    /\ Step(x, [NoReq EXCEPT !.pc = "submit_createDailyReport", !.date = x.date])
    /\ UNCHANGED <<products, sales, cache, startStock, now, off>>

\* routes.ts:139 and 149
SubmitRespond(x) ==
    /\ x.pc \in {"submit_updateDailyReport", "submit_createDailyReport"}
    /\ Step(x, [Done(IF x.pc = "submit_updateDailyReport"
                     THEN "200 Daily report updated and submitted successfully"
                     ELSE "200 Daily report submitted successfully")
                EXCEPT !.date = x.date])
    /\ UNCHANGED <<products, sales, cache, startStock, now, off, dailyReports>>

\* ---------------------------------------------------- GET /api/products
\* routes.ts:11: getProducts builds the array of product objects
ProductsBegin ==
    /\ Arrive([NoReq EXCEPT !.pc = "products_getProducts", !.list = getProducts])
    /\ UNCHANGED <<products, sales, cache, startStock, now, off, dailyReports>>

\* routes.ts:12  res.json(products): the objects are written out as they
\* are now
ProductsRespond(x) ==
    /\ x.pc = "products_getProducts"
    /\ Step(x, [Done("200 products") EXCEPT
                   !.list = [k \in DOMAIN x.list |-> products[x.list[k]]]])
    /\ UNCHANGED <<products, sales, cache, startStock, now, off, dailyReports>>

\* ------------------------------------------------------- GET /api/sales
\* routes.ts:35: getSales builds the array of sale objects
SalesBegin ==
    /\ Arrive([NoReq EXCEPT !.pc = "sales_getSales", !.list = getSales])
    /\ UNCHANGED <<products, sales, cache, startStock, now, off, dailyReports>>

\* routes.ts:36  res.json(sales)
SalesRespond(x) ==
    /\ x.pc = "sales_getSales"
    /\ Step(x, [Done("200 sales") EXCEPT
                   !.list = [k \in DOMAIN x.list |-> sales[x.list[k]]]])
    /\ UNCHANGED <<products, sales, cache, startStock, now, off, dailyReports>>

\* ------------------------------------------ GET /api/dashboard/stats
\* routes.ts:70 and index.js:608-609: today is read and getSalesByDate is
\* called; getDashboardStats awaits
StatsBegin ==
    /\ LET today == ISODate(now)
       IN Arrive([NoReq EXCEPT !.pc = "stats_getSalesByDate", !.date = today,
                               !.todaySales = getSalesByDate(today)])
    /\ UNCHANGED <<products, sales, cache, startStock, now, off, dailyReports>>

\* index.js:611-621: the daily figures are computed, the clock is read
\* again and getSalesByDateRange is called.  weeklySales is read for its
\* sum of profits only and sale records never change, so the request keeps
\* the sum.
StatsWeekly(x) ==
    /\ x.pc = "stats_getSalesByDate"
    /\ LET weeklySales == getSalesByDateRange(weeklyStartDate(now), x.date)
       IN Step(x, [NoReq EXCEPT
             !.pc = "stats_getSalesByDateRange",
             !.stats = DailyStats(x.todaySales) @@
                       [weeklyProfit |-> ToFixed2(10 * SumField(weeklySales, "profit")),
                        productCount |-> 0]])
    /\ UNCHANGED <<products, sales, cache, startStock, now, off, dailyReports>>

\* index.js:622-631: the result is built, productCount from the map as it
\* is now
StatsReturn(x) ==
    /\ x.pc = "stats_getSalesByDateRange"
    /\ Step(x, [x EXCEPT !.pc = "stats_getDashboardStats",
                         !.stats.productCount = Len(products)])
    /\ UNCHANGED <<products, sales, cache, startStock, now, off, dailyReports>>

\* routes.ts:71  res.json(stats)
StatsRespond(x) ==
    /\ x.pc = "stats_getDashboardStats"
    /\ Step(x, [Done("200 stats") EXCEPT !.stats = x.stats])
    /\ UNCHANGED <<products, sales, cache, startStock, now, off, dailyReports>>

\* ----------------------------------------- GET /api/dashboard/weekly
\* routes.ts:79 and index.js:635-643: today is read and the first turn of
\* the loop calls getSalesByDate; getWeeklyData awaits
WeeklyBegin ==
    /\ Arrive([NoReq EXCEPT !.pc = "weekly_getSalesByDate", !.today = now,
                            !.todaySales = getSalesByDate(WeeklyDateStr(now, WeeklySpan))])
    /\ UNCHANGED <<products, sales, cache, startStock, now, off, dailyReports>>

\* index.js:644-651 of one turn of the loop, and either the call of
\* getSalesByDate of the next turn or the return of weeklyData
WeeklyDay(x) ==
    /\ x.pc = "weekly_getSalesByDate"
    /\ LET i == WeeklySpan - Len(x.weeklyData)
           weeklyData == Append(x.weeklyData, WeeklyEntry(x.today, i, x.todaySales))
       IN IF i > 0
          THEN Step(x, [x EXCEPT !.weeklyData = weeklyData,
                                 !.todaySales = getSalesByDate(WeeklyDateStr(x.today, i - 1))])
          ELSE Step(x, [NoReq EXCEPT !.pc = "weekly_getWeeklyData",
                                     !.weeklyData = weeklyData])
    /\ UNCHANGED <<products, sales, cache, startStock, now, off, dailyReports>>

\* routes.ts:80  res.json(weeklyData)
WeeklyRespond(x) ==
    /\ x.pc = "weekly_getWeeklyData"
    /\ Step(x, [Done("200 weekly") EXCEPT !.weeklyData = x.weeklyData])
    /\ UNCHANGED <<products, sales, cache, startStock, now, off, dailyReports>>

\* time passes, up to the instant last
Tick(k, last) ==
    /\ now + k <= last
    /\ now' = now + k
    /\ UNCHANGED <<products, sales, req, cache, startStock, off, dailyReports>>

\* ------------------------------------------------------------- client
\* GET /api/products as the client's query cache receives it.  The cache is
\* read by product id only, and of a product only the stock ever changes, so
\* the model keeps the stock each cached product had when it was fetched.
CachedStocks(ps) == [id \in DOMAIN ps |-> ps[id].stock]

ClientRefresh ==
    /\ cache # CachedStocks(products)
    /\ cache' = CachedStocks(products)
    /\ UNCHANGED <<products, sales, req, startStock, now, off, dailyReports>>

\* quick-stock-adjuster.tsx:54-69 handleQuickAdjustment
QuickNewStock(currentStock, type, amount) ==
    IF type = "add" THEN currentStock + amount ELSE Max(0, currentStock - amount)

\* quick-stock-adjuster.tsx:143  disabled={updateStockMutation.isPending}:
\* the component has sent an adjustment and not yet received its response
AdjustPending == \E x \in InFlight : x.type # "none"

ClientQuickAdjust(id, type, amount) ==
    /\ id \in DOMAIN cache
    /\ ~AdjustPending
    /\ QuickNewStock(cache[id], type, amount) <= MaxStock
    /\ PatchBegin(id, TRUE, QuickNewStock(cache[id], type, amount), amount, type)

RECURSIVE SumEntries(_, _, _)
\* weeklyData.reduce((sum, day) => sum + parseFloat(day[field]), 0) over the
\* first n entries
SumEntries(weeklyData, field, n) ==
    IF n = 0 THEN 0
    ELSE SumEntries(weeklyData, field, n - 1) + weeklyData[n][field]

\* reports.tsx:71-81 calculateWeeklyTotals
calculateWeeklyTotals(weeklyData) ==
    [totalProfit |-> ToFixed2(10 * SumEntries(weeklyData, "profit", Len(weeklyData))),
     totalSales |-> ToFixed2(10 * SumEntries(weeklyData, "sales", Len(weeklyData)))]

\* record-sale.tsx:72-92: the totals the form computes
ClientTotalAmount(quantity, pricePerKg) == ToFixed2(quantity * pricePerKg)

ClientProfit(quantity, pricePerKg, purchasePrice) ==
    ToFixed2(quantity * pricePerKg - quantity * purchasePrice)

\* a sale request that carries the totals the form computes
FormSale(id, quantity, pricePerKg) ==
    SaleBegin(id, quantity, pricePerKg, ClientTotalAmount(quantity, pricePerKg),
              IF id \in DOMAIN products
              THEN ClientProfit(quantity, pricePerKg, products[id].purchasePrice)
              ELSE 0)

\* record-sale.tsx:112-120: the form submits for a product of its list only
ClientRecordSale(id, quantity, pricePerKg) ==
    /\ id \in DOMAIN cache
    /\ FormSale(id, quantity, pricePerKg)

\* the response has been delivered
Finish(x) ==
    /\ x.pc = "done"
    /\ BagIn(x, req)
    /\ req' = req (-) SetToBag({x})
    /\ UNCHANGED <<products, sales, cache, startStock, now, off, dailyReports>>

\* The server with the requests any HTTP caller can send
Next ==
    \/ \E n \in ListedNames, pp \in PurchasePriceInputs, sp \in FormPrices,
          s \in StockInputs : ProductBegin(n, pp, sp, s)
    \/ ProductRespond
    \/ \E id \in ProductIdInputs, q \in QtyInputs, p \in FormPrices :
          FormSale(id, q, p)
    \/ \E x \in InFlight : SaleNotFound(x)
    \/ \E x \in InFlight : SaleInsufficient(x)
    \/ \E x \in InFlight : SaleCreate(x)
    \/ \E x \in InFlight : SaleCreateReturn(x)
    \/ \E x \in InFlight : SaleRespond(x)
    \/ \E id \in ProductIdInputs, h \in BOOLEAN, s \in StockInputs :
          PatchBegin(id, h, s, 0, "none")
    \/ \E x \in InFlight : PatchRespond(x)
    \/ \E x \in InFlight : Finish(x)

Spec == Init /\ [][Next]_vars

\* The server driven by the client components
NextClient ==
    \/ \E n \in ListedNames, pp \in PurchasePriceInputs, sp \in FormPrices,
          s \in StockInputs : ProductBegin(n, pp, sp, s)
    \/ ProductRespond
    \/ ClientRefresh
    \/ \E id \in ProductIdInputs, q \in QtyInputs, p \in FormPrices :
          ClientRecordSale(id, q, p)
    \/ \E x \in InFlight : SaleInsufficient(x)
    \/ \E x \in InFlight : SaleCreate(x)
    \/ \E x \in InFlight : SaleCreateReturn(x)
    \/ \E x \in InFlight : SaleRespond(x)
    \/ \E id \in ProductIdInputs, t \in AdjustTypes, a \in AdjustAmounts :
          ClientQuickAdjust(id, t, a)
    \/ \E x \in InFlight : PatchRespond(x)
    \/ \E x \in InFlight : Finish(x)

SpecClient == Init /\ [][NextClient]_vars

\* Sale requests with every body the schema lets through, no adjustment
NextSales ==
    \/ \E n \in ListedNames, pp \in PurchasePriceInputs, sp \in FormPrices,
          s \in StockInputs : ProductBegin(n, pp, sp, s)
    \/ ProductRespond
    \/ \E id \in ProductIdInputs, q \in QtyInputs, p \in PriceInputs,
          ta \in AmountInputs, pr \in AmountInputs : SaleBegin(id, q, p, ta, pr)
    \/ \E x \in InFlight : SaleNotFound(x)
    \/ \E x \in InFlight : SaleInsufficient(x)
    \/ \E x \in InFlight : SaleCreate(x)
    \/ \E x \in InFlight : SaleCreateReturn(x)
    \/ \E x \in InFlight : SaleRespond(x)
    \/ \E x \in InFlight : Finish(x)

SpecSales == Init /\ [][NextSales]_vars

\* One product with a stock of S and nothing but sale requests for it;
\* no response is taken away, so a final state shows every request
InitRace ==
    /\ \E pp \in PurchasePriceInputs, S \in 0..MaxStock :
          /\ products = <<ListedProduct(pp, S)>>
          /\ startStock = <<S>>
    /\ sales = <<>>
    /\ req = EmptyBag
    /\ cache = <<>>
    /\ now = ServerStart
    /\ off = 0
    /\ dailyReports = NoReports

NextRace ==
    \/ \E q \in QtyInputs, p \in FormPrices : FormSale(1, q, p)
    \/ \E x \in InFlight : SaleInsufficient(x)
    \/ \E x \in InFlight : SaleCreate(x)
    \/ \E x \in InFlight : SaleCreateReturn(x)
    \/ \E x \in InFlight : SaleRespond(x)

SpecRace == InitRace /\ [][NextRace]_vars

\* One product whose stock the client has read, sales from the form and one
\* adjustment from the adjuster component
InitOverlap ==
    /\ \E pp \in PurchasePriceInputs, S \in 0..MaxStock :
          /\ products = <<ListedProduct(pp, S)>>
          /\ startStock = <<S>>
          /\ cache = <<S>>
    /\ sales = <<>>
    /\ req = EmptyBag
    /\ now = ServerStart
    /\ off = 0
    /\ dailyReports = NoReports

NextOverlap ==
    \/ \E q \in {n \in QtyInputs : n > 0}, p \in FormPrices : ClientRecordSale(1, q, p)
    \/ \E x \in InFlight : SaleInsufficient(x)
    \/ \E x \in InFlight : SaleCreate(x)
    \/ \E x \in InFlight : SaleCreateReturn(x)
    \/ \E x \in InFlight : SaleRespond(x)
    \/ \E t \in AdjustTypes, a \in AdjustAmounts : ClientQuickAdjust(1, t, a)
    \/ \E x \in InFlight : PatchRespond(x)

SpecOverlap == InitOverlap /\ [][NextOverlap]_vars

\* One product, sales of it, submissions of the daily report and the clock,
\* in a time zone west of, at or east of UTC.  It is 18:00 local time, and
\* the report of the day, with no sale yet, has been submitted or not.  No
\* response is taken away.
InitReports ==
    /\ \E pp \in PurchasePriceInputs : products = <<ListedProduct(pp, MaxStock)>>
    /\ sales = <<>>
    /\ req = EmptyBag
    /\ cache = <<>>
    /\ startStock = <<>>
    /\ off \in Offsets
    /\ now = ReportStart - off
    /\ dailyReports \in
          {NoReports,
           createDailyReport(NoReports, ReportTotals({}) @@ [date |-> ISODate(now)])}

NextReports ==
    \/ Tick(1, ReportStart - off + MaxTicks)
    \/ \E p \in FormPrices : FormSale(1, 1, p)
    \/ \E x \in InFlight : SaleCreate(x)
    \/ \E x \in InFlight : SaleCreateReturn(x)
    \/ \E x \in InFlight : SaleRespond(x)
    \/ SubmitBegin
    \/ \E x \in InFlight : SubmitLookup(x)
    \/ \E x \in InFlight : SubmitUpdate(x)
    \/ \E x \in InFlight : SubmitCreate(x)
    \/ \E x \in InFlight : SubmitRespond(x)

SpecReports == InitReports /\ [][NextReports]_vars

\* the ages, in days, of the sale the dashboard scenario starts with
AgeInputs == {1, 6, 7, 8}

\* One product and one sale of it recorded some days ago; sales from the
\* form, negative quantities included, requests for the dashboard figures
\* and the clock.  No response is taken away.
InitStats ==
    /\ now = ServerStart
    /\ off = 0
    /\ \E pp \in PurchasePriceInputs, k \in AgeInputs :
          /\ products = <<ListedProduct(pp, 1)>>
          /\ sales = <<[productId |-> 1, quantity |-> 1, pricePerKg |-> 15,
                        totalAmount |-> ClientTotalAmount(1, 15),
                        profit |-> ClientProfit(1, 15, pp),
                        saleDate |-> now - k * TicksPerDay]>>
    /\ req = EmptyBag
    /\ cache = <<>>
    /\ startStock = <<>>
    /\ dailyReports = NoReports

NextStats ==
    \/ Tick(1, ServerStart + MaxTicks)
    \/ \E q \in {-1, 1}, p \in FormPrices : FormSale(1, q, p)
    \/ \E x \in InFlight : SaleInsufficient(x)
    \/ \E x \in InFlight : SaleCreate(x)
    \/ \E x \in InFlight : SaleCreateReturn(x)
    \/ \E x \in InFlight : SaleRespond(x)
    \/ StatsBegin
    \/ \E x \in InFlight : StatsWeekly(x)
    \/ \E x \in InFlight : StatsReturn(x)
    \/ \E x \in InFlight : StatsRespond(x)

SpecStats == InitStats /\ [][NextStats]_vars

\* The scenario of the dashboard with requests for the weekly series in
\* place of those for the figures
NextWeekly ==
    \/ Tick(1, ServerStart + MaxTicks)
    \/ \E p \in FormPrices : FormSale(1, 1, p)
    \/ \E x \in InFlight : SaleInsufficient(x)
    \/ \E x \in InFlight : SaleCreate(x)
    \/ \E x \in InFlight : SaleCreateReturn(x)
    \/ \E x \in InFlight : SaleRespond(x)
    \/ WeeklyBegin
    \/ \E x \in InFlight : WeeklyDay(x)
    \/ \E x \in InFlight : WeeklyRespond(x)

SpecWeekly == InitStats /\ [][NextWeekly]_vars

\* One product with a stock of S, sale requests for it and every read
\* request; no response is taken away
NextReads ==
    \/ \E q \in {n \in QtyInputs : n > 0}, p \in FormPrices : FormSale(1, q, p)
    \/ \E x \in InFlight : SaleInsufficient(x)
    \/ \E x \in InFlight : SaleCreate(x)
    \/ \E x \in InFlight : SaleCreateReturn(x)
    \/ \E x \in InFlight : SaleRespond(x)
    \/ ProductsBegin
    \/ \E x \in InFlight : ProductsRespond(x)
    \/ SalesBegin
    \/ \E x \in InFlight : SalesRespond(x)
    \/ StatsBegin
    \/ \E x \in InFlight : StatsWeekly(x)
    \/ \E x \in InFlight : StatsReturn(x)
    \/ \E x \in InFlight : StatsRespond(x)
    \/ WeeklyBegin
    \/ \E x \in InFlight : WeeklyDay(x)
    \/ \E x \in InFlight : WeeklyRespond(x)

SpecReads == InitRace /\ [][NextReads]_vars

\* Two products and the report of the day, at 18:00 in UTC; sales and
\* stock adjustments of either product and submissions of the report.  No
\* response is taken away.
InitFrame ==
    /\ now = ReportStart
    /\ off = 0
    /\ \E pp \in PurchasePriceInputs :
          products = <<ListedProduct(pp, MaxStock),
                       [ListedProduct(pp, 1) EXCEPT !.name = "nok"]>>
    /\ startStock = <<MaxStock, 1>>
    /\ sales = <<>>
    /\ req = EmptyBag
    /\ cache = <<>>
    /\ dailyReports =
          createDailyReport(NoReports, ReportTotals({}) @@ [date |-> ISODate(now)])

NextFrame ==
    \/ \E id \in {1, 2}, q \in {n \in QtyInputs : n > 0}, p \in FormPrices :
          FormSale(id, q, p)
    \/ \E x \in InFlight : SaleInsufficient(x)
    \/ \E x \in InFlight : SaleCreate(x)
    \/ \E x \in InFlight : SaleCreateReturn(x)
    \/ \E x \in InFlight : SaleRespond(x)
    \/ \E id \in {1, 2}, s \in StockInputs : PatchBegin(id, TRUE, s, 0, "none")
    \/ \E x \in InFlight : PatchRespond(x)
    \/ SubmitBegin
    \/ \E x \in InFlight : SubmitLookup(x)
    \/ \E x \in InFlight : SubmitUpdate(x)
    \/ \E x \in InFlight : SubmitRespond(x)

SpecFrame == InitFrame /\ [][NextFrame]_vars

\* POST /api/products with every body the schema lets through, and stock
\* adjustments
NextCreate ==
    \/ \E n \in NameInputs, pp \in CreatePriceInputs, sp \in CreatePriceInputs,
          s \in StockInputs : ProductBegin(n, pp, sp, s)
    \/ ProductRespond
    \/ \E id \in ProductIdInputs, h \in BOOLEAN, s \in StockInputs :
          PatchBegin(id, h, s, 0, "none")
    \/ \E x \in InFlight : PatchRespond(x)
    \/ \E x \in InFlight : Finish(x)

SpecCreate == Init /\ [][NextCreate]_vars

TypeOK ==
    /\ DOMAIN products \subseteq ProductIdInputs
    /\ Len(sales) <= MaxSales
    /\ BagCardinality(req) <= MaxReq

\* ------------------------------------------------------------ properties
\* the step in which request y arrives
Arrives(y) == req' = req (+) SetToBag({y})

\* the step in which the handler of request x runs and leaves it as y
StepTo(x, y) ==
    /\ x # y
    /\ BagIn(x, req)
    /\ req' = (req (-) SetToBag({x})) (+) SetToBag({y})

Sold(id) == SumQty(sales, id, Len(sales))

\* C1: in every reachable state every product's stock is >= 0.
C1_StockNeverNegative == \A id \in DOMAIN products : products[id].stock >= 0

\* the quantity a sale request asked for
AskedQty(x) == IF x.sale # 0 THEN sales[x.sale].quantity ELSE x.quantity

RECURSIVE SumAsked(_)
SumAsked(S) ==
    IF S = {} THEN 0
    ELSE LET x == CHOOSE z \in S : TRUE
         IN CopiesIn(x, req) * AskedQty(x) + SumAsked(S \ {x})

AllAnswered == BagCardinality(req) = MaxReq /\ \A x \in InFlight : x.pc = "done"

\* C2: when all of the concurrent sale requests for a product of stock S are
\* answered and their quantities sum to more than S, the quantities of the
\* successful ones sum to at most S, every other one was answered
\* "Insufficient stock", and the stock is S minus the sold quantity and >= 0.
C2_ConcurrentSalesFit ==
    (AllAnswered /\ SumAsked(InFlight) > startStock[1]) =>
        /\ Sold(1) <= startStock[1]
        /\ \A x \in InFlight :
              \/ x.status = "200 sale" /\ x.sale \in DOMAIN sales
              \/ x.status = "400 Insufficient stock"
        /\ \A x \in InFlight : x.status = "200 sale" => CopiesIn(x, req) = 1
        /\ Cardinality({x \in InFlight : x.status = "200 sale"}) = Len(sales)
        /\ products[1].stock = startStock[1] - Sold(1)
        /\ products[1].stock >= 0

C2_Witness ==
    /\ AllAnswered
    /\ SumAsked(InFlight) > startStock[1]
    /\ \E x \in InFlight : x.status = "200 sale"
    /\ \E x \in InFlight : x.status = "400 Insufficient stock"

\* the step takes up a stock adjustment
AdjustmentStep ==
    \E y \in BagToSet(req') : Arrives(y) /\ y.pc = "patch_updateProductStock"

\* C3: sales and stock decrements are paired one to one, so that a product's
\* stock is its initial stock plus the changes the adjustments made minus the
\* quantities of its sale records: a product is created without sales, a
\* step that is not an adjustment changes a stock by exactly minus the
\* quantities of the sale records it adds for the product, an adjustment adds
\* no sale record, and every sale record references an existing product.
C3_SalesPairedWithDecrements ==
    [][/\ \A i \in DOMAIN sales' : sales'[i].productId \in DOMAIN products'
       /\ \A id \in DOMAIN products' \ DOMAIN products : Sold(id)' = 0
       /\ \A id \in DOMAIN products :
             IF AdjustmentStep
             THEN Sold(id)' = Sold(id)
             ELSE products'[id].stock - products[id].stock = -(Sold(id)' - Sold(id))
      ]_vars

C3_Witness ==
    /\ Len(sales) = MaxSales
    /\ \E x \in InFlight : x.status = "200 Stock updated successfully"
    /\ \E id \in DOMAIN products : Sold(id) # 0

\* C4: the step of a sale request that passes the checks (stock s >= q)
\* leaves the stock at s - q and adds exactly one sale record with the
\* request's product, quantity and price; that record is the one the later
\* steps of the request return in the 200 response.
C4_SuccessfulSale ==
    [][\A x \in InFlight : \A y \in BagToSet(req') :
          /\ (StepTo(x, y) /\ x.pc = "sale_getProduct" /\ y.pc = "sale_updateProductStock") =>
                /\ products[x.product].stock >= x.quantity
                /\ products'[x.product].stock = products[x.product].stock - x.quantity
                /\ Len(sales') = Len(sales) + 1
                /\ SubSeq(sales', 1, Len(sales)) = sales
                /\ sales'[Len(sales')].productId = x.product
                /\ sales'[Len(sales')].quantity = x.quantity
                /\ sales'[Len(sales')].pricePerKg = x.pricePerKg
                /\ y.sale = Len(sales')
          /\ (StepTo(x, y) /\ x.pc \in {"sale_updateProductStock", "sale_createSale"}) =>
                /\ y.sale = x.sale
                /\ y.pc = "done" => y.status = "200 sale"
                /\ UNCHANGED <<products, sales>>
      ]_vars

C4_Witness ==
    \E x \in InFlight :
       /\ x.status = "200 sale"
       /\ sales[x.sale].quantity > 0
       /\ sales[x.sale].productId \in DOMAIN products

\* C5: every stored sale has totalAmount = round2(quantity x pricePerKg) and
\* profit = round2(quantity x pricePerKg - quantity x purchasePrice),
\* whatever totals the request carried.
C5_TotalsDerived ==
    \A i \in DOMAIN sales :
       LET sale == sales[i]
           purchasePrice == products[sale.productId].purchasePrice
       IN /\ sale.totalAmount = round2(sale.quantity * sale.pricePerKg)
          /\ sale.profit = round2(sale.quantity * sale.pricePerKg
                                  - sale.quantity * purchasePrice)

\* C6: a sale request whose quantity is greater than the product's current
\* stock is answered "Insufficient stock", and its step changes neither the
\* products nor the sale records.
C6_InsufficientStockRejected ==
    [][\A x \in InFlight : \A y \in BagToSet(req') :
          (StepTo(x, y) /\ x.pc = "sale_getProduct" /\ x.product # NoId
              /\ x.quantity > products[x.product].stock) =>
             /\ y = [Done("400 Insufficient stock") EXCEPT !.quantity = x.quantity]
             /\ UNCHANGED <<products, sales>>
      ]_vars

C6_Witness ==
    \E x \in InFlight :
       /\ x.status = "400 Insufficient stock"
       /\ x.quantity > 0
       /\ Len(sales) > 0

\* C7: a sale request whose productId resolves to no product is answered
\* "Product not found", and its step inserts no sale record and changes no
\* product's stock.
C7_UnknownProductRejected ==
    [][\A x \in InFlight : \A y \in BagToSet(req') :
          (StepTo(x, y) /\ x.pc = "sale_getProduct" /\ x.product = NoId) =>
             /\ y = Done("404 Product not found")
             /\ UNCHANGED <<products, sales>>
      ]_vars

C7_Witness ==
    /\ \E x \in InFlight : x.status = "404 Product not found"
    /\ products # <<>>

\* C8: a stock adjustment whose resulting stock would be below 0 fails and
\* leaves the stock unchanged: no adjustment request the server takes up
\* leaves a product with a stock below 0.
C8_NegativeAdjustmentRejected ==
    [][\A y \in BagToSet(req') :
          (Arrives(y) /\ y.pc = "patch_updateProductStock" /\ y.product # NoId) =>
             products'[y.product].stock >= 0
      ]_vars

\* C9: a stock adjustment addressed to an id that names no product is
\* answered "not found", never as a successful update, and changes no product.
C9_UnknownIdAdjustmentRejected ==
    [][\A x \in InFlight : \A y \in BagToSet(req') :
          (StepTo(x, y) /\ x.pc = "patch_updateProductStock" /\ x.product = NoId) =>
             /\ y.status = "404 Product not found"
             /\ UNCHANGED products
      ]_vars

\* the change of stock the caller of adjustment request y asked for, computed
\* from the stock it last read
CallerDelta(y) == QuickNewStock(cache[y.product], y.type, y.adjustment) - cache[y.product]

\* C10: an adjustment by delta that overlaps sales loses no update: the step
\* that applies it leaves the stock at the stock the sales so far have left
\* plus delta (S + delta - q, with later sales still subtracted).
C10_NoLostUpdate ==
    [][\A y \in BagToSet(req') :
          (Arrives(y) /\ y.pc = "patch_updateProductStock" /\ y.type # "none"
              /\ y.product # NoId) =>
             products'[y.product].stock = products[y.product].stock + CallerDelta(y)
      ]_vars

\* C11: a product creation with an empty name, a purchasePrice <= 0, a
\* sellingPrice <= 0 or an initial stock < 0 fails and adds no product:
\* every product a step adds has a name, positive prices and a stock >= 0.
C11_InvalidProductRejected ==
    [][\A id \in DOMAIN products' \ DOMAIN products :
          /\ products'[id].name # ""
          /\ products'[id].purchasePrice > 0
          /\ products'[id].sellingPrice > 0
          /\ products'[id].stock >= 0
      ]_vars

\* C12: a sale request with a quantity <= 0 or a pricePerKg <= 0 fails at
\* validation and changes nothing: the handler goes on to getProduct with
\* positive quantity and price only, and no step that adds a sale record
\* increases a stock.
C12_NonPositiveSaleRejected ==
    [][/\ \A y \in BagToSet(req') :
             (Arrives(y) /\ y.pc = "sale_getProduct" /\ y.product # NoId) =>
                (y.quantity > 0 /\ y.pricePerKg > 0)
       /\ \A id \in DOMAIN products :
             sales' # sales => products'[id].stock <= products[id].stock
      ]_vars

\* the hour of the day and the calendar day in the server's time zone
LocalHour == ((now + off) % TicksPerDay) * HoursPerTick

LocalDay == (now + off) \div TicksPerDay

\* a submit request that has passed the hour gate
Submitting(x) ==
    x.pc \in {"submit_getSalesByDate", "submit_getDailyReport",
              "submit_updateDailyReport", "submit_createDailyReport"}

Submitted(x) ==
    x.status \in {"200 Daily report submitted successfully",
                  "200 Daily report updated and submitted successfully"}

EarlySubmission(x) ==
    x.status = "400 Daily report can only be submitted after 6:00 PM"

\* C13: a submit called when the local hour is below 18 is answered with
\* the early-submission error and leaves the reports as they are; a submit
\* called at a local hour >= 18 is taken up, its write leaves a report with
\* isSubmitted = true under the date the handler took as today, it is
\* answered as a success, and that report is there when it is answered.
C13_SubmitGate ==
    [][/\ \A y \in BagToSet(req') :
             (Arrives(y) /\ (EarlySubmission(y) \/ Submitting(y))) =>
                /\ LocalHour < 18 => (EarlySubmission(y) /\ UNCHANGED dailyReports)
                /\ LocalHour >= 18 => y.pc = "submit_getSalesByDate"
       /\ \A x \in InFlight : \A y \in BagToSet(req') :
             (StepTo(x, y) /\ Submitting(x)) =>
                /\ y.date = x.date
                /\ y.pc = "done" => Submitted(y)
                /\ x.pc = "submit_getDailyReport" =>
                      /\ x.date \in DOMAIN dailyReports'
                      /\ dailyReports'[x.date].isSubmitted
                /\ y.pc = "done" =>
                      /\ x.date \in DOMAIN dailyReports
                      /\ dailyReports[x.date].isSubmitted
      ]_vars

C13_Witness ==
    /\ \E x \in InFlight : EarlySubmission(x)
    /\ \E x \in InFlight :
          Submitted(x) /\ x.date \in DOMAIN dailyReports /\ off # 0

\* C14: submittedAt of a report is set once, when the report is first
\* submitted, and no later submit for its date, sequential or overlapping
\* with another, changes it.
C14_SubmittedAtSetOnce ==
    [][\A d \in DOMAIN dailyReports :
          dailyReports[d].submittedAt # NoTime =>
             /\ d \in DOMAIN dailyReports'
             /\ dailyReports'[d].submittedAt = dailyReports[d].submittedAt
      ]_vars

RECURSIVE DaySum(_, _, _, _)
\* the sum of field over the sales among the first n that are in S
DaySum(S, field, ss, n) ==
    IF n = 0 THEN 0
    ELSE DaySum(S, field, ss, n - 1) + (IF n \in S THEN ss[n][field] ELSE 0)

\* C15: a submit for a date that has a report already leaves the stored
\* totalSales and totalProfit at the sums over all sales of that date that
\* were recorded when the submit was called, those recorded after the
\* earlier submit included.
C15_ResubmitRefreshesTotals ==
    [][/\ \A y \in BagToSet(req') :
             (Arrives(y) /\ y.pc = "submit_getSalesByDate") =>
                y.todaySales = {i \in 1..Len(sales) :
                                   sales[i].saleDate \div TicksPerDay = y.date}
       /\ \A x \in InFlight : \A y \in BagToSet(req') :
             /\ (StepTo(x, y) /\ x.pc = "submit_getSalesByDate") =>
                   (y.todaySales = x.todaySales /\ y.date = x.date)
             /\ (StepTo(x, y) /\ x.pc = "submit_getDailyReport"
                    /\ x.date \in DOMAIN dailyReports) =>
                   /\ dailyReports'[x.date].totalSales =
                         DaySum(x.todaySales, "totalAmount", sales, Len(sales))
                   /\ dailyReports'[x.date].totalProfit =
                         DaySum(x.todaySales, "profit", sales, Len(sales))
      ]_vars

C15_Witness ==
    \E x \in InFlight :
       /\ x.status = "200 Daily report updated and submitted successfully"
       /\ x.date \in DOMAIN dailyReports
       /\ dailyReports[x.date].totalSales > 0
       /\ \E i \in DOMAIN sales :
             sales[i].saleDate >= dailyReports[x.date].submittedAt

\* C16: the state of a report never goes back: once a date has a report
\* with isSubmitted = true, every later state has a report for that date
\* with isSubmitted = true.
C16_SubmittedStays ==
    [][\A d \in DOMAIN dailyReports :
          dailyReports[d].isSubmitted =>
             (d \in DOMAIN dailyReports' /\ dailyReports'[d].isSubmitted)
      ]_vars

C16_Witness ==
    \E x \in InFlight :
       /\ x.pc = "submit_updateDailyReport"
       /\ dailyReports[x.date].isSubmitted
       /\ dailyReports[x.date].submittedAt < now

\* C17: a submit that passes the hour gate writes the report of today's
\* date in local server time, the local day whose hour was checked, with
\* the totals of that local day's sales, whatever the offset between local
\* time and UTC.
C17_ReportOfLocalDay ==
    [][\A y \in BagToSet(req') :
          (Arrives(y) /\ y.pc = "submit_getSalesByDate") =>
             /\ y.date = LocalDay
             /\ y.todaySales = {i \in DOMAIN sales :
                                  (sales[i].saleDate + off) \div TicksPerDay = LocalDay}
      ]_vars

\* the sales of the ledger whose calendar day (ISO date) is d
SalesOfDay(d) == {i \in 1..Len(sales) : sales[i].saleDate \div TicksPerDay = d}

\* the step in which the dashboard request x gets its figures y.stats
StatsComputed(x, y) == StepTo(x, y) /\ x.pc = "stats_getSalesByDate"

\* C18: the dashboard's dailySales and dailyProfit are the sums of
\* totalAmount and profit over exactly the sales of the ledger, as it is
\* when the request is taken up, whose calendar day is today, and dailyCost
\* is dailySales - dailyProfit; the response carries these figures.
C18_DailyFigures ==
    [][/\ \A y \in BagToSet(req') :
             (Arrives(y) /\ y.pc = "stats_getSalesByDate") =>
                /\ y.date = now \div TicksPerDay
                /\ y.todaySales = SalesOfDay(y.date)
       /\ \A x \in InFlight : \A y \in BagToSet(req') :
             /\ StatsComputed(x, y) =>
                   /\ y.stats.dailySales =
                         DaySum(x.todaySales, "totalAmount", sales, Len(sales))
                   /\ y.stats.dailyProfit =
                         DaySum(x.todaySales, "profit", sales, Len(sales))
                   /\ y.stats.dailyCost = y.stats.dailySales - y.stats.dailyProfit
             /\ (StepTo(x, y) /\ x.pc \in {"stats_getSalesByDateRange",
                                            "stats_getDashboardStats"}) =>
                   /\ y.stats.dailySales = x.stats.dailySales
                   /\ y.stats.dailyProfit = x.stats.dailyProfit
                   /\ y.stats.dailyCost = x.stats.dailyCost
      ]_vars

C18_Witness ==
    \E x \in InFlight :
       /\ x.status = "200 stats"
       /\ x.stats.dailySales > 0
       /\ x.stats.dailyProfit > 0
       /\ \E i \in DOMAIN sales : sales[i].saleDate \div TicksPerDay < now \div TicksPerDay

\* C19: dailyMargin is 0 whenever dailySales = 0 and dailyProfit /
\* dailySales x 100 otherwise (to one decimal, as the response carries it).
C19_DailyMargin ==
    [][\A x \in InFlight : \A y \in BagToSet(req') :
          StatsComputed(x, y) =>
             y.stats.dailyMargin =
                IF y.stats.dailySales = 0 THEN 0
                ELSE ToFixed1(y.stats.dailyProfit * 100, y.stats.dailySales)
      ]_vars

\* C20: weeklyProfit is the sum of profit over exactly the sales whose
\* calendar day lies in [today - 6, today]; a sale dated today - 7 or
\* earlier is not counted.
C20_WeeklyWindow ==
    [][\A x \in InFlight : \A y \in BagToSet(req') :
          StatsComputed(x, y) =>
             y.stats.weeklyProfit =
                DaySum({i \in 1..Len(sales) :
                          /\ sales[i].saleDate \div TicksPerDay >= x.date - 6
                          /\ sales[i].saleDate \div TicksPerDay <= x.date},
                       "profit", sales, Len(sales))
      ]_vars

\* the calendar day (ISO date) of instant t
DayOf(t) == t \div TicksPerDay

\* the entry the weekly series owes for calendar day d, summed over the
\* sales in S
OwedEntry(d, S) ==
    [day |-> d % 7, profit |-> DaySum(S, "profit", sales, Len(sales)),
     sales |-> DaySum(S, "totalAmount", sales, Len(sales))]

\* C21: the weekly series has exactly 7 entries, one per calendar day of
\* the window today-6 .. today from the oldest to the newest, each with the
\* sums of totalAmount and profit of that day's sales in the ledger as the
\* handler reads it, zero for a day without sales: the k-th day is read as
\* day today-7+k, its entry is appended in the k-th place with the sums of
\* the sales read, and the response carries the series once it has 7 entries.
C21_WeeklySeries ==
    [][/\ \A y \in BagToSet(req') :
             (Arrives(y) /\ y.pc = "weekly_getSalesByDate") =>
                /\ y.weeklyData = <<>>
                /\ y.today = now
                /\ y.todaySales = SalesOfDay(DayOf(now) - 6)
       /\ \A x \in InFlight : \A y \in BagToSet(req') :
             /\ (StepTo(x, y) /\ x.pc = "weekly_getSalesByDate") =>
                   LET k == Len(x.weeklyData) + 1
                   IN /\ y.weeklyData =
                            Append(x.weeklyData,
                                   OwedEntry(DayOf(x.today) - 7 + k, x.todaySales))
                      /\ k < 7 => /\ y.pc = "weekly_getSalesByDate"
                                  /\ y.today = x.today
                                  /\ y.todaySales = SalesOfDay(DayOf(x.today) - 6 + k)
                      /\ k >= 7 => (k = 7 /\ y.pc = "weekly_getWeeklyData")
             /\ (StepTo(x, y) /\ x.pc = "weekly_getWeeklyData") =>
                   /\ y.status = "200 weekly"
                   /\ y.weeklyData = x.weeklyData
                   /\ Len(y.weeklyData) = 7
      ]_vars

C21_Witness ==
    \E x \in InFlight :
       /\ x.status = "200 weekly"
       /\ Len(x.weeklyData) = 7
       /\ x.weeklyData[1].sales > 0
       /\ x.weeklyData[7].sales > 0
       /\ \A k \in 2..6 : x.weeklyData[k].sales = 0 /\ x.weeklyData[k].profit = 0

\* a request for the dashboard figures that has not been answered yet
StatsRunning(x) ==
    x.pc \in {"stats_getSalesByDate", "stats_getSalesByDateRange",
              "stats_getDashboardStats"}

\* in the dashboard scenario: the ledger is the one the scenario started
\* with (its one sale; products and reports are not written at all), and
\* the day is the one it started on
NothingChangedSinceStart == Len(sales) = 1 /\ DayOf(now) = DayOf(ServerStart)

\* C22: requests for the dashboard figures made with no mutation between
\* them and within one calendar day are answered with identical values, and
\* no step of such a request changes a product, a sale or a report.
C22_StatsIdempotent ==
    [][/\ NothingChangedSinceStart' =>
             \A x \in BagToSet(req') : \A z \in BagToSet(req') :
                (x.status = "200 stats" /\ z.status = "200 stats") => x.stats = z.stats
       /\ \A y \in BagToSet(req') :
             (Arrives(y) /\ StatsRunning(y)) => UNCHANGED <<products, sales, dailyReports>>
       /\ \A x \in InFlight : \A y \in BagToSet(req') :
             (StepTo(x, y) /\ StatsRunning(x)) => UNCHANGED <<products, sales, dailyReports>>
      ]_vars

C22_Witness ==
    \E x \in InFlight :
       /\ x.status = "200 stats"
       /\ CopiesIn(x, req) = 2
       /\ NothingChangedSinceStart
       /\ now > ServerStart
       /\ x.stats.weeklyProfit > 0

\* a read request that has not been answered yet
Reading(x) ==
    \/ x.pc \in {"products_getProducts", "sales_getSales",
                 "weekly_getSalesByDate", "weekly_getWeeklyData"}
    \/ StatsRunning(x)

\* every sale record in the ledger has its decrement in the stock of its
\* product, and every decrement its sale record
Paired == \A id \in DOMAIN products : products[id].stock = startStock[id] - Sold(id)

\* C23: no read that interleaves with sale requests in flight observes a
\* torn state: in every step of a read request (product list, sale list,
\* dashboard figures, weekly series) the ledger it reads has every sale
\* record paired with its stock decrement, the product list is answered
\* with the stocks of that ledger and the sale list with its sale records.
C23_NoTornRead ==
    [][/\ \A y \in BagToSet(req') : (Arrives(y) /\ Reading(y)) => Paired
       /\ \A x \in InFlight : \A y \in BagToSet(req') :
             (StepTo(x, y) /\ Reading(x)) =>
                /\ Paired
                /\ x.pc = "products_getProducts" =>
                      \A k \in DOMAIN y.list :
                         y.list[k].stock = startStock[x.list[k]] - Sold(x.list[k])
                /\ x.pc = "sales_getSales" =>
                      \A k \in DOMAIN y.list :
                         y.list[k] = sales[x.list[k]]
      ]_vars

C23_Witness ==
    /\ \E x \in InFlight : x.pc = "sale_updateProductStock"
    /\ \E x \in InFlight :
          /\ x.status = "200 products"
          /\ x.list[1].stock = startStock[1] - Sold(1)
          /\ x.list[1].stock < startStock[1]

\* C24: sale records are immutable and never removed: every sale of a state
\* is in the next state with the same productId, quantity, pricePerKg,
\* totalAmount, profit and saleDate, whatever step is taken.
C24_SalesImmutable ==
    [][\A i \in DOMAIN sales :
          /\ i \in DOMAIN sales'
          /\ sales'[i].productId = sales[i].productId
          /\ sales'[i].quantity = sales[i].quantity
          /\ sales'[i].pricePerKg = sales[i].pricePerKg
          /\ sales'[i].totalAmount = sales[i].totalAmount
          /\ sales'[i].profit = sales[i].profit
          /\ sales'[i].saleDate = sales[i].saleDate
      ]_vars

C24_Witness ==
    /\ Len(sales) = MaxSales
    /\ sales[1].saleDate < sales[Len(sales)].saleDate
    /\ \A x \in InFlight : x.status = "200 sale"

\* the calendar day of instant t in the server's time zone
LocalDayOf(t) == (t + off) \div TicksPerDay

\* the dates a caller may ask for: yesterday, today and tomorrow
AskedDates == (DayOf(now) - 1)..(DayOf(now) + 1)

\* C25: getSalesByDate(date) yields exactly the sales whose local calendar
\* day is date, and getSalesByDateRange(start, end) exactly those whose
\* local calendar day d has start <= d <= end, whatever the offset between
\* local time and UTC.
C25_SalesByLocalDay ==
    \A start \in AskedDates : \A end \in AskedDates :
       /\ getSalesByDate(start) =
             {i \in DOMAIN sales : LocalDayOf(sales[i].saleDate) = start}
       /\ getSalesByDateRange(start, end) =
             {i \in DOMAIN sales : /\ start <= LocalDayOf(sales[i].saleDate)
                                   /\ LocalDayOf(sales[i].saleDate) <= end}

\* C26: the stock check rejects only a quantity that exceeds the current
\* stock: a sale request answered "Insufficient stock" asked for more than
\* the stock, and the step of a request whose quantity equals the stock
\* stores the sale and leaves the stock at 0.
C26_ExactStockSells ==
    [][\A x \in InFlight : \A y \in BagToSet(req') :
          (StepTo(x, y) /\ x.pc = "sale_getProduct" /\ x.product # NoId) =>
             /\ y.status = "400 Insufficient stock" =>
                   x.quantity > products[x.product].stock
             /\ x.quantity = products[x.product].stock =>
                   /\ y.pc = "sale_updateProductStock"
                   /\ Len(sales') = Len(sales) + 1
                   /\ sales'[Len(sales')].quantity = x.quantity
                   /\ products'[x.product].stock = 0
      ]_vars

C26_Witness ==
    /\ Len(sales) = 1
    /\ sales[1].quantity = startStock[1]
    /\ startStock[1] > 0
    /\ products[1].stock = 0
    /\ \E x \in InFlight : x.status = "200 sale" /\ x.sale = 1

\* what getWeeklyData yields when it runs on the ledger as it is now
WeeklyDataNow ==
    [k \in 1..(WeeklySpan + 1) |->
        WeeklyEntry(now, WeeklySpan + 1 - k,
                    getSalesByDate(WeeklyDateStr(now, WeeklySpan + 1 - k)))]

\* the weeklyProfit getDashboardStats yields on the ledger as it is now
WeeklyProfitNow ==
    ToFixed2(10 * SumField(getSalesByDateRange(weeklyStartDate(now), ISODate(now)),
                           "profit"))

\* C27: in every ledger state the dashboard's weeklyProfit is the sum of
\* the profit values of the entries of the weekly series of that state.
C27_WeeklyProfitIsSeriesTotal ==
    WeeklyProfitNow = calculateWeeklyTotals(WeeklyDataNow).totalProfit

\* C28: in every reachable state every stored report has isSubmitted true
\* if and only if its submittedAt is not null.
C28_SubmittedIffStamped ==
    \A d \in DOMAIN dailyReports :
       dailyReports[d].isSubmitted <=> dailyReports[d].submittedAt # NoTime

C28_Witness ==
    \E x \in InFlight :
       /\ x.status = "200 Daily report submitted successfully"
       /\ x.date \in DOMAIN dailyReports
       /\ dailyReports[x.date].isSubmitted
       /\ dailyReports[x.date].submittedAt > ReportStart - off

\* C29: every stored report is a consistent snapshot: its totalCost is
\* totalSales - totalProfit, and there is one set of sales of its date over
\* which both totalSales and totalProfit are summed, so that a sale
\* recorded while the submit was in flight is in both totals or in neither.
C29_ReportIsSnapshot ==
    \A d \in DOMAIN dailyReports :
       /\ dailyReports[d].totalCost =
             dailyReports[d].totalSales - dailyReports[d].totalProfit
       /\ \E S \in SUBSET SalesOfDay(d) :
             /\ dailyReports[d].totalSales = DaySum(S, "totalAmount", sales, Len(sales))
             /\ dailyReports[d].totalProfit = DaySum(S, "profit", sales, Len(sales))

C29_Witness ==
    \E x \in InFlight :
       /\ Submitted(x)
       /\ x.date \in DOMAIN dailyReports
       /\ Len(sales) = 1
       /\ DayOf(sales[1].saleDate) = x.date
       /\ sales[1].saleDate < dailyReports[x.date].submittedAt
       /\ dailyReports[x.date].totalSales = 0
       /\ dailyReports[x.date].totalProfit = 0

\* the step leaves every product but p as it is, changes of p nothing but
\* the stock, and leaves every report as it is
OnlyStockOf(p) ==
    /\ DOMAIN products' = DOMAIN products
    /\ \A id \in DOMAIN products :
          products'[id] = IF id = p
                          THEN [products[id] EXCEPT !.stock = products'[id].stock]
                          ELSE products[id]
    /\ dailyReports' = dailyReports

SaleRunning(x) == x.pc \in {"sale_getProduct", "sale_updateProductStock", "sale_createSale"}

\* C30: a stock adjustment or a sale of product p changes only the stock
\* of p (its name, purchasePrice, sellingPrice and createdAt, every other
\* product and every report stay as they are), and no step of a report
\* submission changes a product or a sale.
C30_FrameEffects ==
    [][/\ \A y \in BagToSet(req') :
             /\ (Arrives(y) /\ (SaleRunning(y) \/ y.pc = "patch_updateProductStock")) =>
                   OnlyStockOf(y.product)
             /\ (Arrives(y) /\ (Submitting(y) \/ EarlySubmission(y))) =>
                   UNCHANGED <<products, sales>>
       /\ \A x \in InFlight : \A y \in BagToSet(req') :
             /\ (StepTo(x, y) /\ (SaleRunning(x) \/ x.pc = "patch_updateProductStock")) =>
                   OnlyStockOf(x.product)
             /\ (StepTo(x, y) /\ Submitting(x)) => UNCHANGED <<products, sales>>
      ]_vars

C30_Witness ==
    /\ \E x \in InFlight : x.status = "200 sale" /\ sales[x.sale].productId = 1
    /\ \E x \in InFlight : x.status = "200 Stock updated successfully"
    /\ products[1].stock = startStock[1] - Sold(1)
    /\ products[2].stock # startStock[2]
    /\ products[1].name # products[2].name
    /\ DOMAIN dailyReports # {}
====
